---- MODULE Spec2Model ----
(***************************************************************************)
(* Model of xdsl/interactive/app.py (InputApp): the reactive core binding  *)
(* the input text and the selected pass pipeline to the displayed output   *)
(* and query.                                                              *)
(*                                                                         *)
(* The App handles one message at a time.  ListView.Selected and           *)
(* Button.Pressed handlers mutate the reactive attributes, whose watchers  *)
(* run synchronously inside the assignment.  An edit of the input TextArea *)
(* happens in the widget and posts TextArea.Changed, which the App handles *)
(* later (update_current_module is its handler).                           *)
(***************************************************************************)
EXTENDS Integers, Sequences, FiniteSets, TLC

VARIABLES
    mounted,               \* on_mount has run and the reactives are initialised
    input_text,            \* input_text_area.text, a sequence of characters
    changed_pending,       \* TextArea.Changed messages of #input not yet handled
    pass_pipeline,         \* reactive pass_pipeline: sequence of pass names
    current_module,        \* reactive current_module: None, ModuleOp or Exception
    output_text,           \* text loaded in output_text_area
    selected_query_label,  \* text of selected_query_label
    ctx,                   \* dialects held by the MLContext created last
    last_run,              \* what the last run of update_current_module did
    last_event,            \* the handler that ran last and what it did
    probe                  \* an observer of the runs on one chosen input

vars == <<mounted, input_text, changed_pending, pass_pipeline, current_module,
          output_text, selected_query_label, ctx, last_run, last_event, probe>>

(***************************************************************************)
(* Bounds of the model.                                                    *)
(***************************************************************************)
MaxLen == 2        \* longest input text, in characters
MaxPipeline == 3   \* longest pass pipeline
MaxPending == 2    \* most TextArea.Changed messages in flight

(***************************************************************************)
(* Compiler services: dialects, parser, passes, printer.                   *)
(***************************************************************************)
Chars == {"a", " ", "?"}

\* get_all_dialects(): the dialects every new context is loaded with.
AllDialects == {"builtin"}

\* The registered passes, sorted by name; each entry is (name, pass).
ALL_PASSES == <<"a-to-b", "load-x", "lower-b">>

PassNames == {ALL_PASSES[i] : i \in 1..Len(ALL_PASSES)}

None == [tag |-> "None"]
ModuleOp(ops) == [tag |-> "ModuleOp", ops |-> ops]
Exception(msg) == [tag |-> "Exception", msg |-> msg]

RECURSIVE Str(_)
\* The text of the TextArea as one string.
Str(text) == IF text = <<>> THEN "" ELSE Head(text) \o Str(Tail(text))

RECURSIVE ParseOps(_)
\* Parser.parse_module: blanks are skipped, "a" is an operation, anything
\* else is a parse error.
ParseOps(text) ==
    IF text = <<>> THEN [ok |-> TRUE, ops |-> <<>>]
    ELSE IF Head(text) = " " THEN ParseOps(Tail(text))
    ELSE IF Head(text) = "a"
         THEN LET rest == ParseOps(Tail(text))
              IN IF rest.ok THEN [ok |-> TRUE, ops |-> <<"a">> \o rest.ops]
                 ELSE rest
    ELSE [ok |-> FALSE, msg |-> "ParseError: unexpected " \o Head(text)]

RECURSIVE RewriteFirstA(_)
RewriteFirstA(ops) ==
    IF ops = <<>> THEN <<>>
    ELSE IF Head(ops) = "a" THEN <<"b">> \o Tail(ops)
    ELSE <<Head(ops)>> \o RewriteFirstA(Tail(ops))

\* ModulePass.apply(ctx, module) of one pass instance: the context and the
\* module after it, or the error it raised.
ApplyPass(name, c, ops) ==
    CASE name = "a-to-b" ->
            [ok |-> TRUE, ctx |-> c, ops |-> RewriteFirstA(ops)]
      [] name = "lower-b" ->
            IF \E i \in 1..Len(ops) : ops[i] = "a"
            THEN [ok |-> FALSE, ctx |-> c, ops |-> ops,
                  msg |-> "lower-b: cannot lower a"]
            ELSE [ok |-> TRUE, ctx |-> c, ops |-> <<>>]
      [] name = "load-x" ->
            IF "x" \in c
            THEN [ok |-> FALSE, ctx |-> c, ops |-> ops,
                  msg |-> "dialect x already registered"]
            ELSE [ok |-> TRUE, ctx |-> c \cup {"x"}, ops |-> ops]

RECURSIVE PipelineApply(_, _, _, _)
\* PipelinePass(passes).apply(ctx, module): the passes in list order, on the
\* same module, until one raises.  applied lists the passes that were run.
PipelineApply(passes, c, ops, applied) ==
    IF passes = <<>>
    THEN [ok |-> TRUE, ctx |-> c, ops |-> ops, applied |-> applied]
    ELSE LET r == ApplyPass(Head(passes), c, ops)
         IN IF r.ok
            THEN PipelineApply(Tail(passes), r.ctx, r.ops,
                               Append(applied, Head(passes)))
            ELSE [ok |-> FALSE, ctx |-> r.ctx, ops |-> r.ops, msg |-> r.msg,
                  applied |-> Append(applied, Head(passes))]

RECURSIVE JoinOps(_)
JoinOps(ops) ==
    IF ops = <<>> THEN ""
    ELSE IF Len(ops) = 1 THEN Head(ops)
    ELSE Head(ops) \o " " \o JoinOps(Tail(ops))

\* Printer(stream).print(value): a module is serialised, any other value is
\* printed as str(value).
PrinterPrint(value) ==
    IF value.tag = "ModuleOp"
    THEN "builtin.module {" \o JoinOps(value.ops) \o "}"
    ELSE value.msg


(***************************************************************************)
(* update_current_module: the executor.                                    *)
(***************************************************************************)
\* Variant: the context of the previous run is kept and used again.
ReusedContext(prev) == prev \cup AllDialects

\* Variant: the context is built at the first run and kept for the later
\* ones.
CachedContext(prev) == IF prev = {} THEN AllDialects ELSE prev

\* MLContext(True) followed by load_dialect of every dialect: a new context
\* for this run, whatever the previous run left behind.
NewContext(prev) == AllDialects

RECURSIVE Dedup(_, _)
\* The names without the later occurrences of a name already met.
Dedup(names, seen) ==
    IF names = <<>> THEN <<>>
    ELSE IF Head(names) \in seen THEN Dedup(Tail(names), seen)
    ELSE <<Head(names)>> \o Dedup(Tail(names), seen \cup {Head(names)})

\* Variant: a pass selected twice is instantiated once.
InstantiatePassesOnce(pipeline) == Dedup(pipeline, {})

\* Variant: a rewriting pass is always put in front of the selected ones.
InstantiatePassesWithDefault(pipeline) == <<"a-to-b">> \o pipeline

\* [p() for p in self.pass_pipeline]: one new instance per pipeline entry.
InstantiatePasses(pipeline) == pipeline

\* Variant: the test for the empty text never succeeds.
IsEmptyInputNever(text) == FALSE

\* (input_text) == ""
IsEmptyInput(text) == Str(text) = ""

\* Variant: when a pass raises, the module as it stands is kept.
ResultOfPartial(r) == ModuleOp(r.ops)

\* The value assigned to current_module after parsing succeeded: the module
\* the passes were applied to, or the exception one of them raised.
ResultOf(r) == IF r.ok THEN ModuleOp(r.ops) ELSE Exception(r.msg)

\* Variant: the pass instances are created before the text is parsed.
RunUpdateCurrentModuleInstFirst(text, pipeline, prev) ==
    IF IsEmptyInput(text)
    THEN [result |-> None, ctx |-> prev,
          parsed |-> FALSE, instantiated |-> <<>>, applied |-> <<>>]
    ELSE LET c == NewContext(prev)
             insts == InstantiatePasses(pipeline)
             p == ParseOps(text)
         IN IF ~p.ok
            THEN [result |-> Exception(p.msg), ctx |-> c,
                  parsed |-> TRUE, instantiated |-> insts, applied |-> <<>>]
            ELSE LET r == PipelineApply(insts, c, p.ops, <<>>)
                 IN [result |-> ResultOf(r),
                     ctx |-> r.ctx, parsed |-> TRUE,
                     instantiated |-> insts, applied |-> r.applied]

\* The body of update_current_module on the text and pipeline it reads:
\* the value assigned to current_module, the context it leaves, and what
\* it called on the way (parser, pass instances created, passes applied).
RunUpdateCurrentModule(text, pipeline, prev) ==
    IF IsEmptyInput(text)
    THEN [result |-> None, ctx |-> prev,
          parsed |-> FALSE, instantiated |-> <<>>, applied |-> <<>>]
    ELSE LET c == NewContext(prev)
             p == ParseOps(text)
         IN IF ~p.ok
            THEN [result |-> Exception(p.msg), ctx |-> c,
                  parsed |-> TRUE, instantiated |-> <<>>, applied |-> <<>>]
            ELSE LET insts == InstantiatePasses(pipeline)
                     r == PipelineApply(insts, c, p.ops, <<>>)
                 IN [result |-> ResultOf(r),
                     ctx |-> r.ctx, parsed |-> TRUE,
                     instantiated |-> insts, applied |-> r.applied]

\* The trace of a session in which update_current_module has not run yet.
NoRun == [result |-> None, ctx |-> {},
          parsed |-> FALSE, instantiated |-> <<>>, applied |-> <<>>]

(***************************************************************************)
(* The projections and the reactive attributes.                            *)
(***************************************************************************)
\* Variant: the match statement has no case for an exception.
RenderOutputModuleOnly(value) ==
    IF value.tag = "None" THEN "No input"
    ELSE IF value.tag = "ModuleOp" THEN PrinterPrint(value)
    ELSE ""

\* watch_current_module: the text loaded in the output TextArea.
RenderOutput(value) ==
    IF value.tag = "None" THEN "No input" ELSE PrinterPrint(value)

RECURSIVE JoinNames(_, _)
\* sep.join(names)
JoinNames(sep, names) ==
    IF names = <<>> THEN ""
    ELSE IF Len(names) = 1 THEN Head(names)
    ELSE Head(names) \o sep \o JoinNames(sep, Tail(names))

\* Variant: a pass selected twice is listed once.
RenderQueryDedup(pipeline) ==
    "xdsl-opt -p " \o ("\n" \o JoinNames(", " \o "\n", Dedup(pipeline, {})))

\* watch_pass_pipeline: the text of the selected-passes label.
RenderQuery(pipeline) ==
    "xdsl-opt -p " \o ("\n" \o JoinNames(", " \o "\n", pipeline))

\* Variant: copy_query joins the names on one line.
CopyQueryTextOneLine(pipeline) ==
    "xdsl-opt -p " \o JoinNames(", ", pipeline)

\* copy_query: the query handed to the pasteboard.
CopyQueryText(pipeline) ==
    "xdsl-opt -p " \o ("\n" \o JoinNames(", " \o "\n", pipeline))

\* Variant: the watcher runs only when the kind of value changes.
CurrentModuleChangedByTag(old, new) == old.tag # new.tag

\* reactive current_module: the watcher runs when the new value differs
\* from the old one.  A ModuleOp or an Exception made by this run is a new
\* object and equals no older value; None equals None.
CurrentModuleChanged(old, new) == ~(old.tag = "None" /\ new.tag = "None")

\* Variant: the watcher runs on every assignment (always_update).
PassPipelineAlwaysUpdate(old, new) == TRUE

\* reactive pass_pipeline: tuples compare by value.
PassPipelineChanged(old, new) == old # new

\* A handled event: the handler, the runs of update_current_module it made,
\* the TextArea.Changed messages it posted, the list item it was given, the
\* text it handed to the pasteboard, and the order in which it updated the
\* label ("label"), ran the body of update_current_module ("execute") and
\* loaded the output TextArea ("output").
Event(name, runs, posted, item) ==
    [name |-> name, runs |-> runs, posted |-> posted, item |-> item,
     copied |-> <<>>, clip_ok |-> TRUE, order |-> <<>>]

\* update_current_module: the body, then watch_current_module if the
\* assignment to current_module changed it.
UpdateOrder(old, new) ==
    <<"execute">> \o
        (IF CurrentModuleChanged(old, new) THEN <<"output">> ELSE <<>>)

\* Variant: update_current_module is called before the label is updated.
WatchOrderExecuteFirst(old, new) == UpdateOrder(old, new) \o <<"label">>

\* watch_pass_pipeline: selected_query_label.update, then
\* update_current_module.
WatchOrder(old, new) == <<"label">> \o UpdateOrder(old, new)

\* The runs observed on probe.key: the first result and output are kept.
\* other tells that a run on another input, ending in an exception, came
\* after the first run on probe.key; hits becomes 2 at a run on probe.key
\* that comes after such a run.
Observe(pipeline, r, out) ==
    IF ~probe.armed THEN probe
    ELSE IF probe.key = <<input_text, pipeline>>
    THEN IF probe.seen = <<>>
         THEN [probe EXCEPT !.seen = <<[result |-> r.result, output |-> out]>>,
                            !.hits = 1]
         ELSE IF probe.other THEN [probe EXCEPT !.hits = 2] ELSE probe
    ELSE IF probe.seen # <<>> /\ r.result.tag = "Exception"
    THEN [probe EXCEPT !.other = TRUE]
    ELSE probe

\* update_current_module on the given pipeline, with the assignment to
\* current_module and its watcher.
update_current_module(pipeline) ==
    LET r == RunUpdateCurrentModule(input_text, pipeline, ctx)
    IN /\ current_module' = r.result
       /\ ctx' = r.ctx
       /\ last_run' = r
       /\ output_text' = IF CurrentModuleChanged(current_module, r.result)
                         THEN RenderOutput(r.result)
                         ELSE output_text
       /\ probe' = Observe(pipeline, r, output_text')

\* Variant: the label is updated and update_current_module is not called.
watch_pass_pipeline_label_only(pipeline) ==
    /\ selected_query_label' = RenderQuery(pipeline)
    /\ UNCHANGED <<current_module, ctx, last_run, output_text, probe>>

\* watch_pass_pipeline, run when pass_pipeline has been given a new value.
watch_pass_pipeline(pipeline) ==
    /\ selected_query_label' = RenderQuery(pipeline)
    /\ update_current_module(pipeline)

\* self.pass_pipeline = value
set_pass_pipeline(value, handler, item) ==
    IF PassPipelineChanged(pass_pipeline, value)
    THEN /\ pass_pipeline' = value
         /\ watch_pass_pipeline(value)
         /\ last_event' = [Event(handler, 1, 0, item) EXCEPT
                               !.order = WatchOrder(current_module,
                                                    current_module')]
    ELSE /\ UNCHANGED <<pass_pipeline, selected_query_label, current_module,
                        ctx, last_run, output_text, probe>>
         /\ last_event' = Event(handler, 0, 0, item)

(***************************************************************************)
(* The handlers.                                                           *)
(***************************************************************************)
\* on_mount, then the initial call of the watchers of the two reactives:
\* watch_current_module on the default None, then watch_pass_pipeline on
\* the default (), which runs update_current_module.
on_mount ==
    /\ ~mounted
    /\ mounted' = TRUE
    /\ pass_pipeline' = <<>>
    /\ selected_query_label' = RenderQuery(<<>>)
    /\ LET shown == RenderOutput(current_module)
           r == RunUpdateCurrentModule(input_text, <<>>, ctx)
       IN /\ current_module' = r.result
          /\ ctx' = r.ctx
          /\ last_run' = r
          /\ output_text' = IF CurrentModuleChanged(current_module, r.result)
                            THEN RenderOutput(r.result)
                            ELSE shown
          /\ probe' = Observe(<<>>, r, output_text')
    /\ last_event' = [Event("on_mount", 1, 0, <<>>) EXCEPT
                          !.order = <<"output">> \o
                                    WatchOrder(current_module, current_module')]
    /\ UNCHANGED <<input_text, changed_pending>>

\* Variant: when no entry has the name, the first entry is taken.
FirstMatchOrFirst(selected_pass) ==
    LET hits == {i \in 1..Len(ALL_PASSES) : ALL_PASSES[i] = selected_pass}
    IN IF hits = {} THEN 1
       ELSE CHOOSE i \in hits : \A j \in hits : i <= j

\* The index in ALL_PASSES of the first entry named selected_pass, 0 if none.
FirstMatch(selected_pass) ==
    LET hits == {i \in 1..Len(ALL_PASSES) : ALL_PASSES[i] = selected_pass}
    IN IF hits = {} THEN 0
       ELSE CHOOSE i \in hits : \A j \in hits : i <= j

\* Variant: a pass already selected is not added again.
AppendPassUnique(pipeline, value) ==
    IF \E i \in 1..Len(pipeline) : pipeline[i] = value THEN pipeline
    ELSE Append(pipeline, value)

\* tuple((*self.pass_pipeline, value))
AppendPass(pipeline, value) == Append(pipeline, value)

\* update_pass_pipeline(event) with event.item.name = selected_pass
update_pass_pipeline(selected_pass) ==
    /\ mounted
    /\ Len(pass_pipeline) < MaxPipeline
    /\ IF FirstMatch(selected_pass) # 0
       THEN set_pass_pipeline(
                AppendPass(pass_pipeline, ALL_PASSES[FirstMatch(selected_pass)]),
                "update_pass_pipeline", <<selected_pass>>)
       ELSE /\ UNCHANGED <<pass_pipeline, selected_query_label,
                           current_module, ctx, last_run, output_text, probe>>
            /\ last_event' = Event("update_pass_pipeline", 0, 0,
                                   <<selected_pass>>)
    /\ UNCHANGED <<mounted, input_text, changed_pending>>

\* clear_passes
clear_passes ==
    /\ mounted
    /\ set_pass_pipeline(<<>>, "clear_passes", <<>>)
    /\ UNCHANGED <<mounted, input_text, changed_pending>>

InsertAt(text, i, c) == SubSeq(text, 1, i) \o <<c>> \o SubSeq(text, i + 1, Len(text))
DeleteAt(text, i) == SubSeq(text, 1, i - 1) \o SubSeq(text, i + 1, Len(text))

\* Variant: the edit changes the text and no TextArea.Changed reaches the App.
edit_input_unposted(new_text) ==
    /\ mounted
    /\ changed_pending < MaxPending
    /\ input_text' = new_text
    /\ last_event' = Event("edit_input", 0, 0, <<>>)
    /\ UNCHANGED <<mounted, changed_pending, pass_pipeline, current_module,
                   output_text, selected_query_label, ctx, last_run, probe>>

\* The user edits the input TextArea: the widget changes its text and posts
\* TextArea.Changed.
edit_input(new_text) ==
    /\ mounted
    /\ changed_pending < MaxPending
    /\ input_text' = new_text
    /\ changed_pending' = changed_pending + 1
    /\ last_event' = Event("edit_input", 0, 1, <<>>)
    /\ UNCHANGED <<mounted, pass_pipeline, current_module, output_text,
                   selected_query_label, ctx, last_run, probe>>

insert_input ==
    /\ Len(input_text) < MaxLen
    /\ \E i \in 0..Len(input_text), c \in Chars :
           edit_input(InsertAt(input_text, i, c))

delete_input ==
    \E i \in 1..Len(input_text) : edit_input(DeleteAt(input_text, i))

\* Variant: the Clear Input button also empties the pipeline.
clear_input_and_passes ==
    /\ mounted
    /\ changed_pending < MaxPending
    /\ input_text' = <<>>
    /\ changed_pending' = changed_pending + 1
    /\ pass_pipeline' = <<>>
    /\ IF PassPipelineChanged(pass_pipeline, <<>>)
       THEN watch_pass_pipeline(<<>>)
       ELSE UNCHANGED <<selected_query_label, current_module, ctx, last_run,
                        output_text, probe>>
    /\ last_event' = Event("clear_input", 0, 1, <<>>)
    /\ UNCHANGED mounted

\* clear_input: input_text_area.clear() deletes the whole text, which posts
\* TextArea.Changed.
clear_input ==
    /\ mounted
    /\ changed_pending < MaxPending
    /\ input_text' = <<>>
    /\ changed_pending' = changed_pending + 1
    /\ last_event' = Event("clear_input", 0, 1, <<>>)
    /\ UNCHANGED <<mounted, pass_pipeline, current_module, output_text,
                   selected_query_label, ctx, last_run, probe>>

\* @on(TextArea.Changed, "#input"): the App handles one pending message.
on_input_changed ==
    /\ mounted
    /\ changed_pending > 0
    /\ changed_pending' = changed_pending - 1
    /\ update_current_module(pass_pipeline)
    /\ last_event' = [Event("update_current_module", 1, 0, <<>>) EXCEPT
                          !.order = UpdateOrder(current_module,
                                                current_module')]
    /\ UNCHANGED <<mounted, input_text, pass_pipeline, selected_query_label>>

\* pyclip_copy(text): the pasteboard may fail; the failure is swallowed.
pyclip_copy(handler, text) ==
    /\ \E ok \in BOOLEAN :
           last_event' = [Event(handler, 0, 0, <<>>) EXCEPT
                             !.copied = <<text>>, !.clip_ok = ok]
    /\ UNCHANGED <<mounted, input_text, changed_pending, pass_pipeline,
                   current_module, output_text, selected_query_label, ctx,
                   last_run, probe>>

\* Variant: Copy Output works as a cut and empties the output TextArea.
copy_output_cut ==
    /\ mounted
    /\ \E ok \in BOOLEAN :
           last_event' = [Event("copy_output", 0, 0, <<>>) EXCEPT
                             !.copied = <<output_text>>, !.clip_ok = ok]
    /\ output_text' = ""
    /\ UNCHANGED <<mounted, input_text, changed_pending, pass_pipeline,
                   current_module, selected_query_label, ctx, last_run, probe>>

\* copy_output
copy_output == mounted /\ pyclip_copy("copy_output", output_text)

\* copy_query
copy_query == mounted /\ pyclip_copy("copy_query", CopyQueryText(pass_pipeline))

\* The observer when it watches no input.
NoProbe == [armed |-> FALSE, key |-> <<<<>>, <<>>>>, seen |-> <<>>,
            hits |-> 0, other |-> FALSE]

\* The inputs (source text, pipeline) the observer may watch.
ProbeKeys ==
    { << <<"a">>, <<"load-x">> >>,
      << <<"a", "a">>, <<"a-to-b", "lower-b">> >>,
      << <<"?">>, <<>> >> }

InitApp ==
    /\ mounted = FALSE
    /\ input_text = <<>>
    /\ changed_pending = 0
    /\ pass_pipeline = <<>>
    /\ current_module = None
    /\ output_text = ""
    /\ selected_query_label = ""
    /\ ctx = {}
    /\ last_run = NoRun
    /\ last_event = Event("init", 0, 0, <<>>)

Init == InitApp /\ probe = NoProbe

Next ==
    \/ on_mount
    \/ \E n \in PassNames : update_pass_pipeline(n)
    \/ clear_passes
    \/ insert_input
    \/ delete_input
    \/ clear_input
    \/ on_input_changed
    \/ copy_output
    \/ copy_query

Spec == Init /\ [][Next]_vars

(***************************************************************************)
(* The same session, with the observer watching one input from the start   *)
(* (the pasteboard actions, which change nothing, are left out).           *)
(***************************************************************************)
InitDet ==
    /\ InitApp
    /\ \E k \in ProbeKeys : probe = [armed |-> TRUE, key |-> k, seen |-> <<>>,
                                     hits |-> 0, other |-> FALSE]

NextDet ==
    \/ on_mount
    \/ \E n \in PassNames : update_pass_pipeline(n)
    \/ clear_passes
    \/ insert_input
    \/ delete_input
    \/ clear_input
    \/ on_input_changed

SpecDet == InitDet /\ [][NextDet]_vars

(***************************************************************************)
(* The session when ListView.Selected may carry any item name: the handler  *)
(* reads event.item.name and is not told that the item is one of those     *)
(* on_mount made (the pasteboard actions are left out).                    *)
(***************************************************************************)
ItemNames == PassNames \cup {"no-such-pass"}

NextAnyItem ==
    \/ on_mount
    \/ \E n \in ItemNames : update_pass_pipeline(n)
    \/ clear_passes
    \/ insert_input
    \/ delete_input
    \/ clear_input
    \/ on_input_changed

SpecAnyItem == Init /\ [][NextAnyItem]_vars

(***************************************************************************)
(* Properties.                                                             *)
(***************************************************************************)
\* execute(source, pipeline) of the specification: the result of one run of
\* update_current_module on these inputs in a new session.
Execute(source, pipeline) == RunUpdateCurrentModule(source, pipeline, {}).result

\* The handlers of the four user actions that mutate the state.
MutatingActions ==
    {"update_pass_pipeline", "clear_passes", "edit_input", "clear_input"}

C2_EmptyIffNone ==
    last_event.runs = 1 =>
        /\ (current_module = None) <=> (input_text = <<>>)
        /\ (input_text = <<>>) =>
               (~last_run.parsed /\ output_text = "No input")

\* C2 witness: a run on the empty text with a non-empty pipeline.
C2_Witness ==
    /\ last_event.runs = 1
    /\ input_text = <<>>
    /\ Len(pass_pipeline) >= 1
    /\ current_module = None
    /\ output_text = "No input"

\* The index of the first pass of the pipeline that raises on the module
\* parsed from the text, 0 if none does.
FailIndex(ops, pipeline) ==
    LET bad == {k \in 1..Len(pipeline) :
                   ~PipelineApply(SubSeq(pipeline, 1, k), AllDialects, ops, <<>>).ok}
    IN IF bad = {} THEN 0 ELSE CHOOSE k \in bad : \A j \in bad : k <= j

\* The module as the passes before position k leave it.
PartialModule(ops, pipeline, k) ==
    PipelineApply(SubSeq(pipeline, 1, k - 1), AllDialects, ops, <<>>)

\* C3: after a run in which the pass at position k raises, the passes after
\* k were not applied, current_module is that exception, the output is its
\* rendering, and neither is the partially transformed module.
C3_FailureIsolation ==
    (last_event.runs = 1 /\ input_text # <<>> /\ ParseOps(input_text).ok) =>
        LET ops == ParseOps(input_text).ops
            k == FailIndex(ops, pass_pipeline)
        IN k > 0 =>
             LET part == PartialModule(ops, pass_pipeline, k)
                 err == ApplyPass(pass_pipeline[k], part.ctx, part.ops)
             IN /\ last_run.applied = SubSeq(pass_pipeline, 1, k)
                /\ current_module = Exception(err.msg)
                /\ output_text = err.msg
                /\ output_text # PrinterPrint(ModuleOp(part.ops))
                /\ output_text # PrinterPrint(ModuleOp(err.ops))

\* C3 witness: the second of three passes raised after the first had
\* rewritten the module.
C3_Witness ==
    /\ last_event.runs = 1
    /\ input_text = <<"a", "a">>
    /\ pass_pipeline = <<"a-to-b", "lower-b", "a-to-b">>
    /\ FailIndex(<<"a", "a">>, pass_pipeline) = 2
    /\ PartialModule(<<"a", "a">>, pass_pipeline, 2).ops = <<"b", "a">>
    /\ current_module.tag = "Exception"
    /\ last_run.applied = <<"a-to-b", "lower-b">>

\* C4: every run on the observed (text, pipeline) gives the result and the
\* output of the first run on it, whatever ran in between.
C4_Determinism ==
    (probe.seen # <<>> /\ last_event.runs = 1
        /\ probe.key = <<input_text, pass_pipeline>>) =>
        /\ current_module = probe.seen[1].result
        /\ output_text = probe.seen[1].output

\* C4 witness: a second run on the observed input, after a run on another
\* input that ended in an exception.
C4_Witness ==
    /\ probe.hits = 2
    /\ probe.other
    /\ last_event.runs = 1
    /\ probe.key = <<input_text, pass_pipeline>>
    /\ probe.key[2] = <<"load-x">>

\* C5 as stated: every mutating user action makes exactly one run of
\* update_current_module, at once or through the one TextArea.Changed it
\* posts.
C5_AsStated ==
    last_event.name \in MutatingActions =>
        last_event.runs + last_event.posted = 1

\* C5 amended: a mutating user action makes exactly one run, at once or
\* through the one TextArea.Changed it posts, except clear_passes on an
\* empty pipeline, which makes none; each TextArea.Changed handled makes
\* exactly one run and consumes exactly one message.
C5_OneRunPerMutation ==
    [][ /\ (last_event'.name \in MutatingActions) =>
              /\ last_event'.runs + last_event'.posted =
                     IF last_event'.name = "clear_passes" /\ pass_pipeline = <<>>
                     THEN 0 ELSE 1
              /\ changed_pending' = changed_pending + last_event'.posted
        /\ (last_event'.name = "update_current_module") =>
              /\ last_event'.runs = 1
              /\ changed_pending' = changed_pending - 1
      ]_vars

\* C5 witness: clear_passes was handled with the pipeline already empty and
\* made no run.
C5_Witness ==
    /\ mounted
    /\ last_event.name = "clear_passes"
    /\ last_event.runs = 0
    /\ last_event.posted = 0

\* C6: selecting a registered pass appends it to the pipeline, also when it
\* is already there.
C6_AppendAtEnd ==
    [][ (last_event'.name = "update_pass_pipeline") =>
            /\ Len(last_event'.item) = 1
            /\ Len(pass_pipeline') = Len(pass_pipeline) + 1
            /\ \A i \in 1..Len(pass_pipeline) : pass_pipeline'[i] = pass_pipeline[i]
            /\ pass_pipeline'[Len(pass_pipeline')] = last_event'.item[1]
      ]_vars

\* C6 witness: a pass was selected that was already in the pipeline.
C6_Witness ==
    /\ last_event.name = "update_pass_pipeline"
    /\ last_event.item = <<"a-to-b">>
    /\ pass_pipeline = <<"a-to-b", "load-x", "a-to-b">>

\* C7 as stated: after clear_passes the pipeline is empty and the query and
\* the output are those of the empty pipeline for the current input text.
C7_AsStated ==
    (mounted /\ last_event.name = "clear_passes") =>
        /\ pass_pipeline = <<>>
        /\ selected_query_label = RenderQuery(<<>>)
        /\ output_text = RenderOutput(Execute(input_text, <<>>))

\* C7 amended: after clear_passes the pipeline is empty and the query is
\* that of the empty pipeline; the output is that of the empty pipeline for
\* the current input text when the pipeline was not empty before or no
\* TextArea.Changed is pending; when the pipeline was empty before, the
\* output is left as it was.
C7_ClearResets ==
    [][ (last_event'.name = "clear_passes") =>
            /\ pass_pipeline' = <<>>
            /\ selected_query_label' = RenderQuery(<<>>)
            /\ (pass_pipeline # <<>> \/ changed_pending' = 0) =>
                   output_text' = RenderOutput(Execute(input_text', <<>>))
            /\ (pass_pipeline = <<>>) => output_text' = output_text
      ]_vars

\* C7 witness: clear_passes emptied a pipeline while an edit was pending,
\* and the output is that of the edited text.
C7_Witness ==
    /\ last_event.name = "clear_passes"
    /\ last_event.runs = 1
    /\ changed_pending > 0
    /\ input_text = <<"a">>
    /\ pass_pipeline = <<>>
    /\ output_text = "builtin.module {a}"

\* C8: the pipeline changes only by an append in update_pass_pipeline or by
\* becoming empty in clear_passes; the other handlers leave it as it is.
C8_PipelineFrame ==
    [][ /\ (pass_pipeline' # pass_pipeline) =>
              \/ /\ last_event'.name = "update_pass_pipeline"
                 /\ Len(pass_pipeline') = Len(pass_pipeline) + 1
                 /\ SubSeq(pass_pipeline', 1, Len(pass_pipeline)) = pass_pipeline
              \/ /\ last_event'.name = "clear_passes"
                 /\ pass_pipeline' = <<>>
        /\ (last_event'.name \in {"edit_input", "clear_input", "copy_output",
                                  "copy_query", "update_current_module"}) =>
              pass_pipeline' = pass_pipeline
      ]_vars

\* C8 witness: Clear Input was pressed with passes selected, and they are
\* still selected.
C8_Witness ==
    /\ last_event.name = "clear_input"
    /\ input_text = <<>>
    /\ Len(pass_pipeline) = 2

RECURSIVE QueryOf(_)
\* The query written out from the end of the pipeline: the template and a
\* line break, then the names separated by a comma, a blank and a line break.
QueryOf(pipeline) ==
    IF pipeline = <<>> THEN "xdsl-opt -p \n"
    ELSE IF Len(pipeline) = 1 THEN "xdsl-opt -p \n" \o pipeline[1]
    ELSE QueryOf(SubSeq(pipeline, 1, Len(pipeline) - 1))
             \o ", \n" \o pipeline[Len(pipeline)]

\* C9: the label shows the template followed by the names of the pipeline's
\* passes, in pipeline order, duplicates kept.
C9_QueryShowsPipeline ==
    mounted => selected_query_label = QueryOf(pass_pipeline)

\* C9 witness: the label for a pipeline that holds the same pass twice.
C9_Witness ==
    /\ pass_pipeline = <<"a-to-b", "load-x", "a-to-b">>
    /\ selected_query_label = "xdsl-opt -p \na-to-b, \nload-x, \na-to-b"

\* C10: after a run with the empty pipeline on a non-empty text that
\* parses, current_module is the parsed module and the output is its
\* serialisation.
C10_IdentityPipeline ==
    (last_event.runs = 1 /\ pass_pipeline = <<>> /\ input_text # <<>>
        /\ ParseOps(input_text).ok) =>
        /\ current_module = ModuleOp(ParseOps(input_text).ops)
        /\ output_text = PrinterPrint(ModuleOp(ParseOps(input_text).ops))

\* C10 witness: a run with the empty pipeline on a text of one operation
\* and a blank.
C10_Witness ==
    /\ last_event.runs = 1
    /\ pass_pipeline = <<>>
    /\ input_text = <<"a", " ">>
    /\ current_module = ModuleOp(<<"a">>)
    /\ output_text = "builtin.module {a}"

\* Whether executing the text with the pipeline meets an error: the text
\* does not parse, or one of the passes raises.
MeetsError(text, pipeline) ==
    IF ParseOps(text).ok
    THEN FailIndex(ParseOps(text).ops, pipeline) > 0
    ELSE TRUE

UserActions == MutatingActions \cup {"copy_output", "copy_query"}

\* C12 as stated: a user action is handled only when the recomputation of
\* every earlier mutation has completed, that is, when no TextArea.Changed
\* but its own is pending.
C12_AsStated ==
    (mounted /\ last_event.name \in UserActions) =>
        changed_pending = last_event.posted

\* C12 amended: a change of the pipeline is recomputed inside its handler
\* (query, result and output are those of the current text and the new
\* pipeline when the handler ends); an edit or a clear of the text only
\* posts one TextArea.Changed and leaves result and output as they were;
\* the handler of TextArea.Changed recomputes from the text and pipeline
\* current when it runs.
C12_SyncPipelineAsyncText ==
    [][ /\ (last_event'.name \in {"update_pass_pipeline", "clear_passes"}
             /\ pass_pipeline' # pass_pipeline) =>
              /\ last_event'.runs = 1
              /\ changed_pending' = changed_pending
              /\ selected_query_label' = RenderQuery(pass_pipeline')
              /\ current_module' = Execute(input_text', pass_pipeline')
              /\ output_text' = RenderOutput(current_module')
        /\ (last_event'.name \in {"edit_input", "clear_input"}) =>
              /\ last_event'.runs = 0
              /\ changed_pending' = changed_pending + 1
              /\ current_module' = current_module
              /\ output_text' = output_text
        /\ (last_event'.name = "update_current_module") =>
              /\ changed_pending > 0
              /\ current_module' = Execute(input_text', pass_pipeline')
              /\ output_text' = RenderOutput(current_module')
      ]_vars

\* C12 witness: a pass was selected while the TextArea.Changed of an edit was
\* still pending, and the output is that of the edited text.
C12_Witness ==
    /\ last_event.name = "update_pass_pipeline"
    /\ changed_pending = 1
    /\ input_text = <<"a">>
    /\ pass_pipeline = <<"a-to-b">>
    /\ output_text = "builtin.module {b}"

Place(order, step) ==
    IF \E i \in 1..Len(order) : order[i] = step
    THEN CHOOSE i \in 1..Len(order) : order[i] = step
    ELSE 0

\* C14 as stated: in a handler that changed the pipeline, the label and the
\* output are updated after the run of update_current_module, never before.
C14_AsStated ==
    (last_event.name \in {"update_pass_pipeline", "clear_passes"}
        /\ last_event.runs = 1) =>
        /\ Place(last_event.order, "execute") < Place(last_event.order, "label")
        /\ Place(last_event.order, "output") # 0 =>
               Place(last_event.order, "execute") < Place(last_event.order, "output")

\* C14 amended: in a handler that changed the pipeline, the label is updated
\* first, update_current_module runs next, and the output is loaded after
\* it (when the result changed); the handler of TextArea.Changed runs
\* update_current_module and then loads the output.
C14_LabelExecuteOutput ==
    /\ (last_event.name \in {"update_pass_pipeline", "clear_passes"}
          /\ last_event.runs = 1) =>
           /\ last_event.order \in {<<"label", "execute", "output">>,
                                    <<"label", "execute">>}
           /\ (last_event.order = <<"label", "execute">>) =>
                  (current_module = None /\ output_text = "No input")
           /\ selected_query_label = RenderQuery(pass_pipeline)
    /\ (last_event.name = "update_current_module") =>
           /\ last_event.order \in {<<"execute", "output">>, <<"execute">>}
           /\ (last_event.order = <<"execute">>) =>
                  (current_module = None /\ output_text = "No input")

\* C14 witness: a pass was selected on a non-empty text; label, run and
\* output followed in this order.
C14_Witness ==
    /\ last_event.name = "update_pass_pipeline"
    /\ last_event.order = <<"label", "execute", "output">>
    /\ current_module.tag = "ModuleOp"
    /\ Len(pass_pipeline) = 1

RECURSIVE StateAfter(_, _, _)
\* The context and the module after the first k passes of the pipeline,
\* each applied to what the one before it left, from a new context.
StateAfter(ops, pipeline, k) ==
    IF k = 0 THEN [ctx |-> AllDialects, ops |-> ops]
    ELSE LET before == StateAfter(ops, pipeline, k - 1)
             r == ApplyPass(pipeline[k], before.ctx, before.ops)
         IN [ctx |-> r.ctx, ops |-> r.ops]

\* C15: in a run on a non-empty text that parses, one instance is created
\* per pipeline position and the passes are applied in pipeline order, one
\* application per position, up to the first that raises; when none
\* raises every position was applied and the module is the one the
\* passes give when applied one after the other.
C15_AppliedInOrder ==
    (last_event.runs = 1 /\ input_text # <<>> /\ ParseOps(input_text).ok) =>
        LET ops == ParseOps(input_text).ops
            k == FailIndex(ops, pass_pipeline)
        IN /\ last_run.instantiated = pass_pipeline
           /\ last_run.applied =
                  IF k = 0 THEN pass_pipeline ELSE SubSeq(pass_pipeline, 1, k)
           /\ (k = 0) =>
                  current_module =
                      ModuleOp(StateAfter(ops, pass_pipeline,
                                          Len(pass_pipeline)).ops)

\* C15 witness: a pass selected twice was applied at both positions, and
\* the third pass succeeded on what the two applications left.
C15_Witness ==
    /\ last_event.runs = 1
    /\ input_text = <<"a", "a">>
    /\ pass_pipeline = <<"a-to-b", "a-to-b", "lower-b">>
    /\ last_run.instantiated = <<"a-to-b", "a-to-b", "lower-b">>
    /\ last_run.applied = <<"a-to-b", "a-to-b", "lower-b">>
    /\ current_module = ModuleOp(<<>>)

\* C16: a run on a text the parser rejects stores the parser's error, and
\* no pass of the pipeline was instantiated or applied in that run,
\* whatever the pipeline holds; the context is the new one, which no pass
\* has touched.
C16_ParseFailureRunsNoPass ==
    (last_event.runs = 1 /\ input_text # <<>> /\ ~ParseOps(input_text).ok) =>
        /\ current_module = Exception(ParseOps(input_text).msg)
        /\ output_text = ParseOps(input_text).msg
        /\ last_run.parsed
        /\ last_run.instantiated = <<>>
        /\ last_run.applied = <<>>
        /\ ctx = AllDialects

\* C16 witness: a run with two passes selected on a text that does not
\* parse.
C16_Witness ==
    /\ last_event.runs = 1
    /\ input_text = <<"a", "?">>
    /\ pass_pipeline = <<"load-x", "a-to-b">>
    /\ current_module = Exception("ParseError: unexpected ?")
    /\ last_run.instantiated = <<>>
    /\ last_run.applied = <<>>

\* The contexts a run can have left behind.
Contexts == SUBSET (AllDialects \cup {"x"})

\* C17: a run on a non-empty text works on a context, a module and pass
\* instances of its own: what it stores and what it calls are the same
\* whatever context the run before it left, the context it leaves holds
\* all dialects, and holds dialect x only when this run applied load-x.
C17_RunsAreIsolated ==
    [][(last_event'.runs = 1 /\ input_text' # <<>>) =>
          /\ \A prev \in Contexts :
                 last_run' = RunUpdateCurrentModule(input_text',
                                                    pass_pipeline', prev)
          /\ current_module' = last_run'.result
          /\ ctx' = last_run'.ctx
          /\ last_run'.parsed
          /\ AllDialects \subseteq ctx'
          /\ ("x" \in ctx') =>
                 \E i \in 1..Len(last_run'.applied) :
                     last_run'.applied[i] = "load-x"]_vars

\* C17 witness: load-x is applied with success in a run that comes after
\* an earlier run of load-x and after a failed run.
C17_Witness ==
    /\ probe.hits = 2
    /\ probe.other
    /\ probe.key = << <<"a">>, <<"load-x">> >>
    /\ input_text = <<"a">>
    /\ current_module = ModuleOp(<<"a">>)
    /\ last_run.applied = <<"load-x">>
    /\ "x" \in ctx

\* C18: in every state after mount the query copy_query computes from the
\* pipeline is the text of the selected-passes label, and what copy_query
\* and copy_output handed to the pasteboard is the label's text and the
\* output TextArea's text.
C18_CopiedIsDisplayed ==
    mounted =>
        /\ CopyQueryText(pass_pipeline) = selected_query_label
        /\ (last_event.name = "copy_query") =>
               last_event.copied = <<selected_query_label>>
        /\ (last_event.name = "copy_output") =>
               last_event.copied = <<output_text>>

\* C18 witness: copy_query with two passes selected, the same pass twice.
C18_Witness ==
    /\ last_event.name = "copy_query"
    /\ last_event.clip_ok
    /\ pass_pipeline = <<"a-to-b", "a-to-b">>
    /\ last_event.copied = <<"xdsl-opt -p \na-to-b, \na-to-b">>
    /\ selected_query_label = "xdsl-opt -p \na-to-b, \na-to-b"

\* C19: update_pass_pipeline on an item whose name is no name of
\* ALL_PASSES leaves the pipeline, the result, the output, the query, the
\* text and the pending messages as they were and runs nothing; on a name
\* of ALL_PASSES it appends that one pass at the end, once, and runs once.
C19_UnmatchedItemIsNoOp ==
    [][(last_event'.name = "update_pass_pipeline") =>
          LET item == last_event'.item[1]
          IN IF \A i \in 1..Len(ALL_PASSES) : ALL_PASSES[i] # item
             THEN /\ UNCHANGED <<pass_pipeline, current_module, output_text,
                                 selected_query_label, last_run, ctx,
                                 input_text, changed_pending>>
                  /\ last_event'.runs = 0
             ELSE /\ pass_pipeline' = pass_pipeline \o <<item>>
                  /\ last_event'.runs = 1]_vars

\* C19 witness: an item of unknown name was selected while a pass was
\* selected and a module displayed.
C19_Witness ==
    /\ last_event.name = "update_pass_pipeline"
    /\ last_event.item = <<"no-such-pass">>
    /\ last_event.runs = 0
    /\ pass_pipeline = <<"a-to-b">>
    /\ input_text = <<"a">>
    /\ current_module = ModuleOp(<<"b">>)
    /\ selected_query_label = "xdsl-opt -p \na-to-b"

====
